---- MODULE Spec2Model ----
(***************************************************************************)
(* Model of split_csv (src/splitter.py): the chunked CSV splitter.         *)
(*                                                                         *)
(* The source table is a header plus nrows data rows; data row k is        *)
(* represented by the number k, so that placement, order, duplication and  *)
(* omission of rows are all visible.  File names are sequences of ASCII    *)
(* codes, built exactly as strftime and the f-string build them, and       *)
(* compared as strings are compared.  The output directory is a map from   *)
(* file name to file content; os.path.join prefixes every name with the    *)
(* same output_dir, which is left out.                                     *)
(***************************************************************************)
EXTENDS Integers, Sequences, FiniteSets, TLC

VARIABLES
    input_exists,   \* os.path.exists(input_file)
    nrows,          \* number of data rows of the source
    chunk_size,     \* the chunk_size argument
    dir_exists,     \* os.path.exists(output_dir)
    pc,             \* position of split_csv
    first_chunk,    \* the reader has not yet yielded a chunk
    pos,            \* number of data rows the reader has consumed
    count,          \* enumerate's counter
    i,              \* loop variable i
    chunk,          \* loop variable chunk
    file_count,     \* local file_count
    result,         \* value returned
    error,          \* class of the exception raised to the caller
    disk,           \* output directory: file name -> content
    log,            \* completed to_csv calls of this run, in order
    now,            \* wall clock, seconds
    budget,         \* clock adjustments still allowed
    cause,          \* class of the exception first raised inside split_csv
    failed_at,      \* 1-based batch whose read or write failed, 0 if none
    dir_created,    \* os.makedirs completed
    fs_ops          \* filesystem calls made so far

vars == <<input_exists, nrows, chunk_size, dir_exists, pc, first_chunk, pos,
          count, i, chunk, file_count, result, error, disk, log, now, budget,
          cause, failed_at, dir_created, fs_ops>>

inputs == <<input_exists, nrows, chunk_size>>
reader == <<first_chunk, pos, count, i, chunk>>
clock == <<now, budget>>

(***************************************************************************)
(* Bounds                                                                  *)
(***************************************************************************)
MaxRows == 10
NegChunks == 1
MaxChunk == 3
MaxClockMoves == 2
LongRows == 100
LongClockMoves == 1
ClockStart == 1
ClockBase == 86398

NoResult == -1

(***************************************************************************)
(* Strings                                                                 *)
(***************************************************************************)
Min(a, b) == IF a < b THEN a ELSE b

\* two decimal digits, as %d, %H, %M and %S print them
TwoDigits(n) == <<48 + (n \div 10), 48 + (n % 10)>>

\* datetime.now().strftime("%Y-%m-%d--%H-%M-%S") for the clock reading t;
\* the clock runs through the first days of 2026-01
Strftime(t) ==
    LET abs == ClockBase + t
        day == 1 + (abs \div 86400)
        sec == abs % 86400
    IN  <<50, 48, 50, 54, 45, 48, 49, 45>> \o TwoDigits(day) \o <<45, 45>>
        \o TwoDigits(sec \div 3600) \o <<45>>
        \o TwoDigits((sec % 3600) \div 60) \o <<45>>
        \o TwoDigits(sec % 60)

RECURSIVE Digits(_)
Digits(n) == IF n < 10 THEN <<48 + n>> ELSE Digits(n \div 10) \o <<48 + (n % 10)>>

\* the format spec :02d
Format02d(n) == IF Len(Digits(n)) < 2 THEN <<48>> \o Digits(n) ELSE Digits(n)

\* the enumerate index that goes into the file name, off by one
IndexOfZeroBased(k) == k

\* the enumerate index that goes into the file name: i+1
IndexOf(k) == k + 1

\* a file name made of the timestamp alone
OutputFileStampOnly(t, k) == Strftime(t) \o <<46, 99, 115, 118>>

\* f"{timestamp}--{i+1:02d}.csv"
OutputFile(t, k) ==
    Strftime(t) \o <<45, 45>> \o Format02d(IndexOf(k)) \o <<46, 99, 115, 118>>

(***************************************************************************)
(* Source and reader                                                       *)
(***************************************************************************)
Source == [k \in 1..nrows |-> k]

\* validation without the zero case
ValidateAllowsZero(exists, cs) ==
    IF ~exists THEN "FileNotFoundError"
    ELSE IF cs < 0 THEN "ValueError"
    ELSE "none"

\* validation with the chunk size tested first
ValidateSizeFirst(exists, cs) ==
    IF cs <= 0 THEN "ValueError"
    ELSE IF ~exists THEN "FileNotFoundError"
    ELSE "none"

\* the two parameter checks, in the order the code makes them
Validate(exists, cs) ==
    IF ~exists THEN "FileNotFoundError"
    ELSE IF cs <= 0 THEN "ValueError"
    ELSE "none"

\* the two except clauses around the loop
Reraise(c) == IF c = "ParserError" THEN "ValueError" ELSE "Exception"

\* a chunk that keeps the rows of the one before
ReadRowsRetaining(old, p, cs) == old \o SubSeq(Source, p + 1, Min(p + cs, nrows))

\* the rows the reader hands out at position p
ReadRows(old, p, cs) == SubSeq(Source, p + 1, Min(p + cs, nrows))

\* file_count left as it was
NextFileCountStale(fc) == fc

\* file_count += 1
NextFileCount(fc) == fc + 1

\* to_csv(output_file, index=False): header, then the rows of the chunk
CsvOf(c) == [header |-> TRUE, rows |-> c]

WriteFile(d, path, content) ==
    [p \in (DOMAIN d) \cup {path} |-> IF p = path THEN content ELSE d[p]]

\* what a failed to_csv can leave at its path
PartialFiles(c, why) ==
    IF why = "PermissionError" THEN {}
    ELSE {[header |-> FALSE, rows |-> <<>>]}
         \cup {[header |-> TRUE, rows |-> SubSeq(c, 1, m)] : m \in 0..(Len(c) - 1)}

(***************************************************************************)
(* Initial states                                                          *)
(***************************************************************************)
InitLocals ==
    /\ pc = "validate"
    /\ first_chunk = TRUE
    /\ pos = 0
    /\ count = 0
    /\ i = 0
    /\ chunk = <<>>
    /\ file_count = 0
    /\ result = NoResult
    /\ error = "none"
    /\ disk = <<>>
    /\ log = <<>>
    /\ now = ClockStart
    /\ cause = "none"
    /\ failed_at = 0
    /\ dir_created = FALSE
    /\ fs_ops = {}

Init ==
    /\ input_exists \in BOOLEAN
    /\ nrows \in 0..MaxRows
    /\ chunk_size \in (0 - NegChunks)..MaxChunk
    /\ dir_exists \in BOOLEAN
    /\ budget = MaxClockMoves
    /\ InitLocals

InitLong ==
    /\ input_exists \in BOOLEAN
    /\ nrows \in LongRows..LongRows
    /\ chunk_size \in 0..1
    /\ dir_exists \in BOOLEAN
    /\ budget = LongClockMoves
    /\ InitLocals

(***************************************************************************)
(* split_csv                                                               *)
(***************************************************************************)
Raise(kind, why) ==
    /\ pc' = "raised"
    /\ error' = kind
    /\ cause' = why

RaiseNotFound ==
    /\ pc = "validate"
    /\ Validate(input_exists, chunk_size) = "FileNotFoundError"
    /\ Raise("FileNotFoundError", "FileNotFoundError")
    /\ fs_ops' = fs_ops \cup {"exists(input_file)"}
    /\ UNCHANGED <<inputs, dir_exists, reader, file_count, result, disk, log,
                   clock, failed_at, dir_created>>

RaiseInvalidChunk ==
    /\ pc = "validate"
    /\ Validate(input_exists, chunk_size) = "ValueError"
    /\ Raise("ValueError", "ValueError")
    /\ fs_ops' = fs_ops \cup {"exists(input_file)"}
    /\ UNCHANGED <<inputs, dir_exists, reader, file_count, result, disk, log,
                   clock, failed_at, dir_created>>

ValidateOk ==
    /\ pc = "validate"
    /\ Validate(input_exists, chunk_size) = "none"
    /\ pc' = "mkdir"
    /\ fs_ops' = fs_ops \cup {"exists(input_file)"}
    /\ UNCHANGED <<inputs, dir_exists, reader, file_count, result, error, disk,
                   log, clock, cause, failed_at, dir_created>>

DirAlreadyExists ==
    /\ pc = "mkdir"
    /\ dir_exists
    /\ pc' = "open"
    /\ fs_ops' = fs_ops \cup {"exists(output_dir)"}
    /\ UNCHANGED <<inputs, dir_exists, reader, file_count, result, error, disk,
                   log, clock, cause, failed_at, dir_created>>

MakeDirs ==
    /\ pc = "mkdir"
    /\ ~dir_exists
    /\ dir_exists' = TRUE
    /\ dir_created' = TRUE
    /\ pc' = "open"
    /\ fs_ops' = fs_ops \cup {"exists(output_dir)", "makedirs(output_dir)"}
    /\ UNCHANGED <<inputs, reader, file_count, result, error, disk, log, clock,
                   cause, failed_at>>

MakeDirsDenied ==
    /\ pc = "mkdir"
    /\ ~dir_exists
    /\ Raise("PermissionError", "PermissionError")
    /\ fs_ops' = fs_ops \cup {"exists(output_dir)", "makedirs(output_dir)"}
    /\ UNCHANGED <<inputs, dir_exists, reader, file_count, result, disk, log,
                   clock, failed_at, dir_created>>

MakeDirsFails ==
    /\ pc = "mkdir"
    /\ ~dir_exists
    /\ Raise("OSError", "OSError")
    /\ fs_ops' = fs_ops \cup {"exists(output_dir)", "makedirs(output_dir)"}
    /\ UNCHANGED <<inputs, dir_exists, reader, file_count, result, disk, log,
                   clock, failed_at, dir_created>>

OpenReader ==
    /\ pc = "open"
    /\ pc' = "next"
    /\ first_chunk' = TRUE
    /\ pos' = 0
    /\ count' = 0
    /\ file_count' = 0
    /\ fs_ops' = fs_ops \cup {"open(input_file)"}
    /\ UNCHANGED <<inputs, dir_exists, i, chunk, result, error, disk, log,
                   clock, cause, failed_at, dir_created>>

OpenReaderFails ==
    /\ pc = "open"
    /\ \E why \in {"ParserError", "PermissionError", "EmptyDataError"} :
          Raise(Reraise(why), why)
    /\ fs_ops' = fs_ops \cup {"open(input_file)"}
    /\ UNCHANGED <<inputs, dir_exists, reader, file_count, result, disk, log,
                   clock, failed_at, dir_created>>

\* next(chunk_iterator) yields: up to chunk_size further rows, or, from a
\* source without data rows, one empty chunk
NextChunk ==
    /\ pc = "next"
    /\ pos < nrows \/ first_chunk
    /\ chunk' = ReadRows(chunk, pos, chunk_size)
    /\ pos' = Min(pos + chunk_size, nrows)
    /\ first_chunk' = FALSE
    /\ i' = count
    /\ count' = count + 1
    /\ pc' = "write"
    /\ UNCHANGED <<inputs, dir_exists, file_count, result, error, disk, log,
                   clock, cause, failed_at, dir_created, fs_ops>>

NextChunkFails ==
    /\ pc = "next"
    /\ pos < nrows
    /\ \E why \in {"ParserError", "OSError"} : Raise(Reraise(why), why)
    /\ failed_at' = count + 1
    /\ UNCHANGED <<inputs, dir_exists, reader, file_count, result, disk, log,
                   clock, dir_created, fs_ops>>

\* StopIteration ends the loop; return file_count
Exhausted ==
    /\ pc = "next"
    /\ pos >= nrows
    /\ ~first_chunk
    /\ pc' = "returned"
    /\ result' = file_count
    /\ UNCHANGED <<inputs, dir_exists, reader, file_count, error, disk, log,
                   clock, cause, failed_at, dir_created, fs_ops>>

WriteChunk ==
    /\ pc = "write"
    /\ LET output_file == OutputFile(now, i)
       IN  /\ disk' = WriteFile(disk, output_file, CsvOf(chunk))
           /\ log' = Append(log, [path |-> output_file, at |-> now])
    /\ file_count' = NextFileCount(file_count)
    /\ pc' = "next"
    /\ fs_ops' = fs_ops \cup {"to_csv(output_file)"}
    /\ UNCHANGED <<inputs, dir_exists, reader, result, error, clock, cause,
                   failed_at, dir_created>>

WriteChunkFails ==
    /\ pc = "write"
    /\ \E why \in {"PermissionError", "OSError"} :
          /\ Raise(Reraise(why), why)
          /\ \/ UNCHANGED disk
             \/ \E part \in PartialFiles(chunk, why) :
                   disk' = WriteFile(disk, OutputFile(now, i), part)
    /\ failed_at' = i + 1
    /\ fs_ops' = fs_ops \cup {"to_csv(output_file)"}
    /\ UNCHANGED <<inputs, dir_exists, reader, file_count, result, log, clock,
                   dir_created>>

(***************************************************************************)
(* The wall clock: datetime.now() is the local time, which advances and    *)
(* can be set back.                                                        *)
(***************************************************************************)
ClockTick ==
    /\ budget > 0
    /\ pc \notin {"returned", "raised"}
    /\ now' = now + 1
    /\ budget' = budget - 1
    /\ UNCHANGED <<inputs, dir_exists, pc, reader, file_count, result, error,
                   disk, log, cause, failed_at, dir_created, fs_ops>>

ClockSetBack ==
    /\ budget > 0
    /\ now > 0
    /\ pc \notin {"returned", "raised"}
    /\ now' = now - 1
    /\ budget' = budget - 1
    /\ UNCHANGED <<inputs, dir_exists, pc, reader, file_count, result, error,
                   disk, log, cause, failed_at, dir_created, fs_ops>>

Next ==
    \/ RaiseNotFound
    \/ RaiseInvalidChunk
    \/ ValidateOk
    \/ DirAlreadyExists
    \/ MakeDirs
    \/ MakeDirsDenied
    \/ MakeDirsFails
    \/ OpenReader
    \/ OpenReaderFails
    \/ NextChunk
    \/ NextChunkFails
    \/ Exhausted
    \/ WriteChunk
    \/ WriteChunkFails
    \/ ClockTick
    \/ ClockSetBack

Spec == Init /\ [][Next]_vars

SpecLong == InitLong /\ [][Next]_vars

(***************************************************************************)
(* Vocabulary of the properties                                            *)
(***************************************************************************)
\* string comparison: the first differing character decides, a proper
\* prefix comes first
LexLess(a, b) ==
    \E k \in 1..(Min(Len(a), Len(b)) + 1) :
        /\ \A j \in 1..(k - 1) : a[j] = b[j]
        /\ IF k <= Len(a) /\ k <= Len(b) THEN a[k] < b[k] ELSE Len(a) < Len(b)

RECURSIVE SortPaths(_)
SortPaths(S) ==
    IF S = {} THEN <<>>
    ELSE LET first == CHOOSE p \in S : \A q \in S : p = q \/ LexLess(p, q)
         IN  <<first>> \o SortPaths(S \ {first})

RECURSIVE ConcatRows(_)
ConcatRows(paths) ==
    IF paths = <<>> THEN <<>>
    ELSE disk[Head(paths)].rows \o ConcatRows(Tail(paths))

LogPaths == {log[k].path : k \in 1..Len(log)}

\* the data rows of the files of this run, files taken in file name order
RowsInFilenameOrder == ConcatRows(SortPaths(LogPaths))

StampsNonDecreasing ==
    \A a, b \in 1..Len(log) : a <= b => log[a].at <= log[b].at

\* rows of batch k (1-based): [(k-1)*chunk_size, min(k*chunk_size, nrows))
Batch(k) == SubSeq(Source, (k - 1) * chunk_size + 1, Min(k * chunk_size, nrows))

\* the characters between the timestamp's "--" and ".csv"
IndexComponent(path) == SubSeq(path, Len(Strftime(0)) + 3, Len(path) - 4)

RECURSIVE ParseNat(_)
ParseNat(ds) ==
    IF ds = <<>> THEN 0
    ELSE 10 * ParseNat(SubSeq(ds, 1, Len(ds) - 1)) + (ds[Len(ds)] - 48)

(***************************************************************************)
(* Properties                                                              *)
(***************************************************************************)

\* C1: after a successful return, with non-decreasing per-file timestamps,
\* the data rows of the files this run wrote, taken in file name order, are
\* exactly the source's data rows in source order, for any number of batches.
C1_ReassemblyInFilenameOrder ==
    (pc = "returned" /\ StampsNonDecreasing) => RowsInFilenameOrder = Source

\* C2: every file written holds at least one and at most chunk_size data
\* rows, and only the last file written may hold fewer than chunk_size.
C2_FileSizes ==
    \A k \in 1..Len(log) :
        LET n == Len(disk[log[k].path].rows)
        IN  /\ 1 <= n
            /\ n <= chunk_size
            /\ n < chunk_size => k = Len(log)

C4_MissingInput ==
    (~input_exists /\ pc # "validate") =>
        /\ pc = "raised"
        /\ error = "FileNotFoundError"
        /\ fs_ops = {"exists(input_file)"}
        /\ ~dir_created
        /\ disk = <<>>
        /\ log = <<>>

C4_Witness ==
    /\ ~input_exists
    /\ chunk_size <= 0
    /\ ~dir_exists
    /\ pc = "raised"
    /\ error = "FileNotFoundError"

\* C5: a source with a header and no data rows, split with chunk_size >= 1,
\* returns 0 and creates no output file.
C5_HeaderOnly ==
    (nrows = 0 /\ chunk_size >= 1 /\ pc = "returned") =>
        /\ result = 0
        /\ disk = <<>>

\* C6: a permission denial met while creating the output directory or while
\* writing an output file reaches the caller as PermissionError.
C6_PermissionDenied ==
    LET creating == "makedirs(output_dir)" \in fs_ops /\ "open(input_file)" \notin fs_ops
        writing == failed_at > 0
    IN  (pc = "raised" /\ cause = "PermissionError" /\ (creating \/ writing)) =>
            error = "PermissionError"

\* C7: the value returned is the number of files this run wrote, and at the
\* head of every loop step file_count is the number of completed to_csv calls.
C7_FileCount ==
    /\ pc = "returned" =>
          /\ result = Len(log)
          /\ result = Cardinality(DOMAIN disk)
    /\ pc \in {"next", "write"} => file_count = Len(log)

C7_Witness ==
    /\ pc = "returned"
    /\ result >= 2

\* C8: the k-th batch of a run goes to a path whose index component is k in
\* decimal, at least two digits wide, and no two batches of a run share a
\* path, however the clock behaves.
C8_IndexedPaths ==
    /\ \A k \in 1..Len(log) :
          LET ix == IndexComponent(log[k].path)
          IN  /\ Len(ix) >= 2
              /\ \A j \in 1..Len(ix) : ix[j] \in 48..57
              /\ ParseNat(ix) = k
    /\ \A a, b \in 1..Len(log) : a # b => log[a].path # log[b].path

C8_Witness ==
    /\ Len(log) >= 10
    /\ \A k \in 1..Len(log) : log[k].at = log[1].at

\* C9: batches are handled one after the other: the rows in memory are those
\* of one batch, at most chunk_size of them, and a batch is read only when
\* every batch before it has been written.
C9_OneBatchAtATime ==
    /\ pc \in {"next", "write", "returned"} => Len(chunk) <= chunk_size
    /\ pc = "write" =>
          /\ chunk = Batch(i + 1)
          /\ count = i + 1
          /\ Len(log) = i
    /\ pc = "next" => Len(log) = count

C9_Witness ==
    /\ pc = "write"
    /\ i >= 1
    /\ Len(chunk) = chunk_size
    /\ chunk_size >= 2

\* C10: when reading or writing batch k fails, the call has raised instead
\* of returning, no batch after k is read or written, and the files of
\* batches 1..k-1 are on disk with the header and exactly their own rows;
\* a completed file is never deleted or rewritten.
C10_FailureKeepsCompletedFiles ==
    /\ \A k \in 1..Len(log) :
          /\ log[k].path \in DOMAIN disk
          /\ disk[log[k].path] = CsvOf(Batch(k))
    /\ failed_at > 0 =>
          /\ pc = "raised"
          /\ result = NoResult
          /\ error \in {"ValueError", "Exception"}
          /\ Len(log) = failed_at - 1
          /\ count <= failed_at

C10_Witness ==
    /\ pc = "raised"
    /\ failed_at >= 3
    /\ Len(log) = failed_at - 1
    /\ Cardinality(DOMAIN disk) > Len(log)

====
